---- MODULE Spec2Model ----
\* Model of github.com/mdhender/maze: the grid/cell graph (grid.go, cell.go),
\* the Wilson's-algorithm generator RectangleMaze and the depth-first solver
\* Rectangle.Solve (maze.go).
EXTENDS Integers, Sequences, FiniteSets, TLC

\* ---------------------------------------------------------------- bounds
\* Dimensions handed to RectangleMaze range over MinDim..MaxHeight and
\* MinDim..MaxWidth, with at most MaxCells cells in the grid.
MinDim == 0 - 1
MaxHeight == 3
MaxWidth == 6
MaxCells == 6
\* Number of Rectangle.Solve calls a caller makes on a returned maze.
MaxSolveCalls == 2

\* Grids handed to the solver have 1..SolverMaxHeight rows, MinGateWidth..
\* SolverMaxWidth columns and at most SolverMaxCells cells.
SolverMaxHeight == 2
SolverMaxWidth == 14
SolverMaxCells == 14
\* Grids of the termination check have at most LiveMaxDim rows and columns and
\* at most LiveMaxCells cells.
LiveMaxDim == 2
LiveMaxCells == 4
\* maze.go:87: the gate range is width / 6 columns wide, so the least width
\* with a non-empty range is 6
GateDivisor == 6
MinGateWidth == GateDivisor

Dims == {d \in (MinDim..MaxHeight) \X (MinDim..MaxWidth) : d[1] * d[2] <= MaxCells}
LiveDims == {d \in (1..LiveMaxDim) \X (1..LiveMaxDim) : d[1] * d[2] <= LiveMaxCells}
SolverDims ==
    {d \in (1..SolverMaxHeight) \X (MinGateWidth..SolverMaxWidth) :
        d[1] * d[2] <= SolverMaxCells}

\* ---------------------------------------------------------------- state
VARIABLES
    height, width, solve,   \* arguments of RectangleMaze
    g,                      \* the grid: [height, width, cells]
    stack,                  \* work queue of the generator / stack of the solver
    from, to,               \* locals of the walk and retrace loops
    entrance, exit,         \* entrance and exit cells (Rectangle.entrance/.exit)
    solved,                 \* Rectangle.solved
    c,                      \* cursor of the on-path marking loop
    err,                    \* error value returned by RectangleMaze
    solveCalls,             \* Solve() calls made so far
    pc, outcome             \* control position; "running", "returned" or "panic"

vars == <<height, width, solve, g, stack, from, to, entrance, exit, solved, c,
          err, solveCalls, pc, outcome>>

\* the nil pointer
Nil == <<0 - 1, 0 - 1>>

\* ---------------------------------------------------------------- grid.go
\* the cell references of an h x w grid, g.cells[row][col]
CellRefs(h, w) == IF h <= 0 \/ w <= 0 THEN {} ELSE (0..(h - 1)) \X (0..(w - 1))

\* mutant of LinkEast: the bound is off by one
LinkEastOffByOne(h, w, p) == IF p[2] < w THEN <<p[1], p[2] + 1>> ELSE Nil

\* the neighbor links of createGrid's second loop
LinkNorth(h, w, p) == IF p[1] > 0 THEN <<p[1] - 1, p[2]>> ELSE Nil
LinkEast(h, w, p) == IF p[2] < w - 1 THEN <<p[1], p[2] + 1>> ELSE Nil
LinkSouth(h, w, p) == IF p[1] < h - 1 THEN <<p[1] + 1, p[2]>> ELSE Nil
LinkWest(h, w, p) == IF p[2] > 0 THEN <<p[1], p[2] - 1>> ELSE Nil

\* the neighborhood slice: appended in the order north, east, south, west
Neighborhood(h, w, p) ==
    (IF p[1] > 0 THEN <<LinkNorth(h, w, p)>> ELSE <<>>)
    \o (IF p[2] < w - 1 THEN <<LinkEast(h, w, p)>> ELSE <<>>)
    \o (IF p[1] < h - 1 THEN <<LinkSouth(h, w, p)>> ELSE <<>>)
    \o (IF p[2] > 0 THEN <<LinkWest(h, w, p)>> ELSE <<>>)

\* a freshly allocated, fully walled and linked cell
NewCell(h, w, p) ==
    [row |-> p[1], col |-> p[2],
     neighbors |-> [north |-> LinkNorth(h, w, p), east |-> LinkEast(h, w, p),
                    south |-> LinkSouth(h, w, p), west |-> LinkWest(h, w, p)],
     walls |-> [north |-> TRUE, east |-> TRUE, south |-> TRUE, west |-> TRUE],
     neighborhood |-> Neighborhood(h, w, p),
     entrance |-> FALSE, exit |-> FALSE, in |-> FALSE, onPath |-> FALSE,
     visited |-> FALSE, to |-> Nil]

\* make([][]*cell, height) and make([]*cell, width) panic on a negative length
createGridPanics(h, w) == h < 0 \/ (h > 0 /\ w < 0)

createGrid(h, w) ==
    [height |-> h, width |-> w,
     cells |-> [p \in CellRefs(h, w) |-> NewCell(h, w, p)]]

\* every cell in row-major order
allCells(gr) ==
    IF gr.height <= 0 \/ gr.width <= 0 THEN <<>>
    ELSE [i \in 1..(gr.height * gr.width) |->
            <<(i - 1) \div gr.width, (i - 1) % gr.width>>]

\* mutant of clearWalk: the pointers are left as they are
clearWalkNoop(gr) == gr

\* every cell's to pointer becomes nil
clearWalk(gr) ==
    [gr EXCEPT !.cells = [p \in DOMAIN gr.cells |-> [gr.cells[p] EXCEPT !.to = Nil]]]

\* ---------------------------------------------------------------- cell.go
\* mutant of hasBeenVisited: the visited flag is not consulted
hasBeenVisitedNever(gr, p) == FALSE

hasBeenVisited(gr, p) == p # Nil /\ gr.cells[p].visited
isEntrance(gr, p) == p # Nil /\ gr.cells[p].entrance
isExit(gr, p) == p # Nil /\ gr.cells[p].exit
eastIsOpen(gr, p) == gr.cells[p].neighbors.east # Nil /\ ~gr.cells[p].walls.east
northIsOpen(gr, p) == gr.cells[p].neighbors.north # Nil /\ ~gr.cells[p].walls.north
southIsOpen(gr, p) == gr.cells[p].neighbors.south # Nil /\ ~gr.cells[p].walls.south
westIsOpen(gr, p) == gr.cells[p].neighbors.west # Nil /\ ~gr.cells[p].walls.west

\* rand.Intn(n): any value of 0..n-1; it panics for n <= 0
Intn(n) == 0..(n - 1)
IntnPanics(n) == n <= 0

\* mutant of randomNeighbor: always the first entry of the neighborhood
randomNeighborFirst(gr, p) == {gr.cells[p].neighborhood[1]}

\* the cells randomNeighbor may return
randomNeighbor(gr, p) ==
    {gr.cells[p].neighborhood[d + 1] : d \in Intn(Len(gr.cells[p].neighborhood))}

\* ---------------------------------------------------------------- maze.go
RECURSIVE Perms(_)
Perms(S) ==
    IF S = {} THEN {<<>>}
    ELSE UNION {{<<x>> \o q : q \in Perms(S \ {x})} : x \in S}

\* rand.Shuffle: any reordering of the slice
Shuffle(s) == {[i \in 1..Len(s) |-> s[q[i]]] : q \in Perms(1..Len(s))}

\* mutant of removeWall: the same side is cleared on both cells
removeWallSameSide(gr, f, t) ==
    IF gr.cells[f].neighbors.north = t
    THEN [gr EXCEPT !.cells[f].walls.north = FALSE, !.cells[t].walls.north = FALSE]
    ELSE IF gr.cells[f].neighbors.east = t
    THEN [gr EXCEPT !.cells[f].walls.east = FALSE, !.cells[t].walls.east = FALSE]
    ELSE IF gr.cells[f].neighbors.south = t
    THEN [gr EXCEPT !.cells[f].walls.south = FALSE, !.cells[t].walls.south = FALSE]
    ELSE IF gr.cells[f].neighbors.west = t
    THEN [gr EXCEPT !.cells[f].walls.west = FALSE, !.cells[t].walls.west = FALSE]
    ELSE gr

\* mutant of removeWall: every wall of f is cleared, not only the one facing t
removeWallAllOfFrom(gr, f, t) ==
    LET g1 == [gr EXCEPT !.cells[f].walls =
                   [north |-> FALSE, east |-> FALSE, south |-> FALSE, west |-> FALSE]]
    IN  IF gr.cells[f].neighbors.north = t
        THEN [g1 EXCEPT !.cells[t].walls.south = FALSE]
        ELSE IF gr.cells[f].neighbors.east = t
        THEN [g1 EXCEPT !.cells[t].walls.west = FALSE]
        ELSE IF gr.cells[f].neighbors.south = t
        THEN [g1 EXCEPT !.cells[t].walls.north = FALSE]
        ELSE IF gr.cells[f].neighbors.west = t
        THEN [g1 EXCEPT !.cells[t].walls.east = FALSE]
        ELSE gr

\* mutant of removeWall: the wall is cleared on the side of f only
removeWallOneSided(gr, f, t) ==
    IF gr.cells[f].neighbors.north = t
    THEN [gr EXCEPT !.cells[f].walls.north = FALSE]
    ELSE IF gr.cells[f].neighbors.east = t
    THEN [gr EXCEPT !.cells[f].walls.east = FALSE]
    ELSE IF gr.cells[f].neighbors.south = t
    THEN [gr EXCEPT !.cells[f].walls.south = FALSE]
    ELSE IF gr.cells[f].neighbors.west = t
    THEN [gr EXCEPT !.cells[f].walls.west = FALSE]
    ELSE gr

\* maze.go:62-74: remove the wall between cell f and the cell t it points to
removeWall(gr, f, t) ==
    IF gr.cells[f].neighbors.north = t
    THEN [gr EXCEPT !.cells[f].walls.north = FALSE, !.cells[t].walls.south = FALSE]
    ELSE IF gr.cells[f].neighbors.east = t
    THEN [gr EXCEPT !.cells[f].walls.east = FALSE, !.cells[t].walls.west = FALSE]
    ELSE IF gr.cells[f].neighbors.south = t
    THEN [gr EXCEPT !.cells[f].walls.south = FALSE, !.cells[t].walls.north = FALSE]
    ELSE IF gr.cells[f].neighbors.west = t
    THEN [gr EXCEPT !.cells[f].walls.west = FALSE, !.cells[t].walls.east = FALSE]
    ELSE gr

\* mutant of markIn: the cell pointed to is marked instead of the cell itself
markInNext(gr, f) ==
    LET t == gr.cells[f].to
    IN  [gr EXCEPT !.cells[IF t = Nil THEN f ELSE t].in = TRUE]

\* maze.go:76: the retraced cell joins the maze
markIn(gr, f) == [gr EXCEPT !.cells[f].in = TRUE]

\* mutant of exitCols: the exit column is counted from the west edge
exitColsWest(gr) == {0 + n : n \in Intn(gr.width \div GateDivisor)}

\* mutant of exitCols: the range is shifted one gate width to the west
exitColsShifted(gr) ==
    {(gr.width - 1 - (gr.width \div GateDivisor)) + n : n \in Intn(gr.width \div GateDivisor)}

\* mutant of shortcut: the early exit is never taken
shortcutNever(gr, cur) == FALSE

\* mutant of pushNeighbor: the predecessor is not recorded
pushNeighborNoPred(s, nb, cur) ==
    [g |-> [s.g EXCEPT !.cells[nb].visited = TRUE],
     stack |-> Append(s.stack, nb)]

\* maze.go:83-93: the gate width and the columns the entrance and exit may take
theGate(gr) == gr.width \div GateDivisor
entranceCols(gr) == {0 + n : n \in Intn(theGate(gr))}
exitCols(gr) == {(gr.width - 1) - n : n \in Intn(theGate(gr))}

\* mutant of placeGates: the two outer walls are opened on the wrong sides
placeGatesSwapped(gr, en, ex) ==
    LET g1 == [gr EXCEPT !.cells[en].entrance = TRUE, !.cells[en].walls.south = FALSE]
    IN  [g1 EXCEPT !.cells[ex].exit = TRUE, !.cells[ex].walls.north = FALSE]

\* maze.go:95-100: flag the entrance and exit cells and open their outer walls
placeGates(gr, en, ex) ==
    LET g1 == [gr EXCEPT !.cells[en].entrance = TRUE, !.cells[en].walls.north = FALSE]
    IN  [g1 EXCEPT !.cells[ex].exit = TRUE, !.cells[ex].walls.south = FALSE]

\* the solver reaches neighbor nb from cell cur: mark, record predecessor, push
pushNeighbor(s, nb, cur) ==
    [g |-> [s.g EXCEPT !.cells[nb].visited = TRUE, !.cells[nb].to = cur],
     stack |-> Append(s.stack, nb)]

\* maze.go:195-196: the south neighbor of cur is the exit, through an open passage
shortcut(gr, cur) == southIsOpen(gr, cur) /\ isExit(gr, gr.cells[cur].neighbors.south)

\* mutant of expand: the neighbors are examined west, south, east, north
expandWestFirst(gr, st, cur) ==
    LET nb == gr.cells[cur].neighbors
        s0 == [g |-> gr, stack |-> st]
        s1 == IF westIsOpen(s0.g, cur) /\ ~hasBeenVisited(s0.g, nb.west)
              THEN pushNeighbor(s0, nb.west, cur) ELSE s0
        s2 == IF southIsOpen(s1.g, cur) /\ ~hasBeenVisited(s1.g, nb.south)
              THEN pushNeighbor(s1, nb.south, cur) ELSE s1
        s3 == IF eastIsOpen(s2.g, cur) /\ ~hasBeenVisited(s2.g, nb.east)
              THEN pushNeighbor(s2, nb.east, cur) ELSE s2
        s4 == IF northIsOpen(s3.g, cur) /\ ~hasBeenVisited(s3.g, nb.north)
              THEN pushNeighbor(s3, nb.north, cur) ELSE s3
    IN  s4

\* maze.go:205-232: push the unvisited neighbors of cur, north, east, south, west
expand(gr, st, cur) ==
    LET nb == gr.cells[cur].neighbors
        s0 == [g |-> gr, stack |-> st]
        s1 == IF northIsOpen(s0.g, cur) /\ ~hasBeenVisited(s0.g, nb.north)
              THEN pushNeighbor(s0, nb.north, cur) ELSE s0
        s2 == IF eastIsOpen(s1.g, cur) /\ ~hasBeenVisited(s1.g, nb.east)
              THEN pushNeighbor(s1, nb.east, cur) ELSE s1
        s3 == IF southIsOpen(s2.g, cur) /\ ~hasBeenVisited(s2.g, nb.south)
              THEN pushNeighbor(s2, nb.south, cur) ELSE s2
        s4 == IF westIsOpen(s3.g, cur) /\ ~hasBeenVisited(s3.g, nb.west)
              THEN pushNeighbor(s3, nb.west, cur) ELSE s3
    IN  s4

\* maze.go:182-186: clear the walk pointers, push the entrance, mark it visited
startSearch(gr, en) == [clearWalk(gr) EXCEPT !.cells[en].visited = TRUE]

\* mutant of markOnPath: the path marker also drops the cell from the maze
markOnPathClearsIn(gr, p) == [gr EXCEPT !.cells[p].onPath = TRUE, !.cells[p].in = FALSE]

\* maze.go:238: flag a cell of the path
markOnPath(gr, p) == [gr EXCEPT !.cells[p].onPath = TRUE]

PcValues ==
    {"start", "shuffle", "seed", "pop", "walk", "retrace", "gate", "rm_search_init",
     "rm_search", "rm_mark", "return", "idle", "search", "mark", "panic"}

TypeOK ==
    /\ pc \in PcValues
    /\ outcome \in {"running", "returned", "panic"}
    /\ solved \in BOOLEAN
    /\ solveCalls \in 0..MaxSolveCalls
    /\ DOMAIN g.cells \in {{}, CellRefs(height, width)}
    /\ \A i \in 1..Len(stack) : stack[i] \in DOMAIN g.cells
    /\ from \in DOMAIN g.cells \cup {Nil}
    /\ to \in DOMAIN g.cells \cup {Nil}

\* the call RectangleMaze(height, width, solve) with dimensions drawn from D
Call(D) ==
    /\ \E d \in D : height = d[1] /\ width = d[2]
    /\ solve \in BOOLEAN
    /\ g = [height |-> 0, width |-> 0, cells |-> <<>>]
    /\ stack = <<>>
    /\ from = Nil
    /\ to = Nil
    /\ entrance = Nil
    /\ exit = Nil
    /\ solved = FALSE
    /\ c = Nil
    /\ err = "unset"
    /\ solveCalls = 0
    /\ pc = "start"
    /\ outcome = "running"

Init == Call(Dims)

Panic ==
    /\ outcome' = "panic"
    /\ pc' = "panic"

\* maze.go:20
CreateGrid ==
    /\ pc = "start"
    /\ IF createGridPanics(height, width)
       THEN Panic /\ UNCHANGED g
       ELSE /\ g' = createGrid(height, width)
            /\ pc' = "shuffle"
            /\ UNCHANGED outcome
    /\ UNCHANGED <<height, width, solve, stack, from, to, entrance, exit, solved,
                   c, err, solveCalls>>

\* maze.go:23-27
ShuffleCells ==
    /\ pc = "shuffle"
    /\ stack' \in Shuffle(allCells(g))
    /\ pc' = "seed"
    /\ UNCHANGED <<height, width, solve, g, from, to, entrance, exit, solved, c,
                   err, solveCalls, outcome>>

\* maze.go:32-33: the first cell of the shuffled queue is the initial tree
SeedTree ==
    /\ pc = "seed"
    /\ IF Len(stack) = 0
       THEN Panic /\ UNCHANGED <<g, stack>>
       ELSE /\ g' = markIn(g, stack[1])
            /\ stack' = Tail(stack)
            /\ pc' = "pop"
            /\ UNCHANGED outcome
    /\ UNCHANGED <<height, width, solve, from, to, entrance, exit, solved, c,
                   err, solveCalls>>

\* mutant of walkEnds: the walk takes a step before its first test
walkEndsAfterStep(gr, p) == p # from /\ gr.cells[p].in

\* maze.go:51: the walk stops at a cell that is in the maze
walkEnds(gr, p) == gr.cells[p].in

\* mutant of recordExit: a cell that already has an exit keeps it
recordExitKeepsFirst(gr, p, n) ==
    IF gr.cells[p].to = Nil THEN [gr EXCEPT !.cells[p].to = n] ELSE gr

\* maze.go:53: the walk records the neighbor it leaves cell p by
recordExit(gr, p, n) == [gr EXCEPT !.cells[p].to = n]

\* maze.go:38-51: test the queue, pop its front cell, clear the walk pointers
PopFrom ==
    /\ pc = "pop"
    /\ IF Len(stack) = 0
       THEN /\ pc' = "gate"
            /\ UNCHANGED <<g, stack, from, to>>
       ELSE /\ from' = stack[1]
            /\ stack' = Tail(stack)
            /\ g' = clearWalk(g)
            /\ to' = stack[1]
            /\ pc' = "walk"
    /\ UNCHANGED <<height, width, solve, entrance, exit, solved, c, err,
                   solveCalls, outcome>>

\* maze.go:51-56: the walk's loop test and one step of it: the walk ends on a
\* cell that is in the maze, else it records and follows a random neighbor
\* (cell.go:76: rand.Intn panics on an empty neighborhood)
RandomWalk ==
    /\ pc = "walk"
    /\ IF walkEnds(g, to)
       THEN /\ pc' = "retrace"
            /\ UNCHANGED <<g, to, outcome>>
       ELSE IF IntnPanics(Len(g.cells[to].neighborhood))
       THEN Panic /\ UNCHANGED <<g, to>>
       ELSE \E n \in randomNeighbor(g, to) :
              /\ g' = recordExit(g, to, n)
              /\ to' = n
              /\ UNCHANGED <<pc, outcome>>
    /\ UNCHANGED <<height, width, solve, stack, from, entrance, exit, solved, c,
                   err, solveCalls>>

\* maze.go:59-79: one step of the retrace, or its end at a cell that is in
RetraceStep ==
    /\ pc = "retrace"
    /\ IF g.cells[from].in
       THEN /\ pc' = "pop"
            /\ UNCHANGED <<g, from, outcome>>
       ELSE IF g.cells[from].to = Nil
       THEN Panic /\ UNCHANGED <<g, from>>
       ELSE /\ g' = markIn(removeWall(g, from, g.cells[from].to), from)
            /\ from' = g.cells[from].to
            /\ UNCHANGED <<pc, outcome>>
    /\ UNCHANGED <<height, width, solve, stack, to, entrance, exit, solved, c,
                   err, solveCalls>>

\* maze.go:83-100: pick the entrance and exit columns and open the two gates
PlaceGates ==
    /\ pc = "gate"
    /\ IF IntnPanics(theGate(g))
       THEN Panic /\ UNCHANGED <<g, entrance, exit>>
       ELSE \E ec \in entranceCols(g), xc \in exitCols(g) :
              /\ entrance' = <<0, ec>>
              /\ exit' = <<g.height - 1, xc>>
              /\ g' = placeGates(g, <<0, ec>>, <<g.height - 1, xc>>)
              /\ pc' = IF solve THEN "rm_search_init" ELSE "return"
              /\ UNCHANGED outcome
    /\ UNCHANGED <<height, width, solve, stack, from, to, solved, c, err,
                   solveCalls>>

\* one iteration of the depth-first search loop (maze.go:112-158 and 187-233);
\* here is the pc of the loop and done the pc of the marking loop after it
SearchStep(here, done) ==
    /\ pc = here
    /\ IF Len(stack) = 0
       THEN Panic /\ UNCHANGED <<g, stack, c>>
       ELSE IF isExit(g, stack[Len(stack)])
       THEN /\ pc' = done
            /\ c' = exit
            /\ UNCHANGED <<g, stack, outcome>>
       ELSE LET current == stack[Len(stack)]
                popped == SubSeq(stack, 1, Len(stack) - 1)
            IN  IF shortcut(g, current)
                THEN LET s == pushNeighbor([g |-> g, stack |-> popped],
                                           g.cells[current].neighbors.south, current)
                     IN  /\ g' = s.g
                         /\ stack' = s.stack
                         /\ pc' = done
                         /\ c' = exit
                         /\ UNCHANGED outcome
                ELSE LET s == expand(g, popped, current)
                     IN  /\ g' = s.g
                         /\ stack' = s.stack
                         /\ UNCHANGED <<pc, c, outcome>>
    /\ UNCHANGED <<height, width, solve, from, to, entrance, exit, solved, err,
                   solveCalls>>

\* maze.go:102-111: RectangleMaze(..., solve = true) starts its own search
InlineSearchInit ==
    /\ pc = "rm_search_init"
    /\ g' = startSearch(g, entrance)
    /\ stack' = <<entrance>>
    /\ pc' = "rm_search"
    /\ UNCHANGED <<height, width, solve, from, to, entrance, exit, solved, c,
                   err, solveCalls, outcome>>

\* maze.go:112-158
InlineSearchStep == SearchStep("rm_search", "rm_mark")

\* maze.go:162-164
InlineMarkStep ==
    /\ pc = "rm_mark"
    /\ IF c = Nil
       THEN pc' = "return" /\ UNCHANGED <<g, c>>
       ELSE /\ g' = markOnPath(g, c)
            /\ c' = g.cells[c].to
            /\ UNCHANGED pc
    /\ UNCHANGED <<height, width, solve, stack, from, to, entrance, exit, solved,
                   err, solveCalls, outcome>>

\* maze.go:167-171: the Rectangle is returned with a nil error, solved unset
Return ==
    /\ pc = "return"
    /\ err' = "nil"
    /\ solved' = FALSE
    /\ outcome' = "returned"
    /\ pc' = "idle"
    /\ UNCHANGED <<height, width, solve, g, stack, from, to, entrance, exit, c,
                   solveCalls>>

\* maze.go:174-186: a caller invokes Solve on the returned maze
SolveCall ==
    /\ pc = "idle"
    /\ solveCalls < MaxSolveCalls
    /\ solveCalls' = solveCalls + 1
    /\ IF solved
       THEN UNCHANGED <<g, stack, pc>>
       ELSE /\ g' = startSearch(g, entrance)
            /\ stack' = <<entrance>>
            /\ pc' = "search"
    /\ UNCHANGED <<height, width, solve, from, to, entrance, exit, solved, c,
                   err, outcome>>

\* maze.go:187-233
SolveSearchStep == SearchStep("search", "mark")

\* maze.go:237-241
SolveMarkStep ==
    /\ pc = "mark"
    /\ IF c = Nil
       THEN /\ solved' = TRUE
            /\ pc' = "idle"
            /\ UNCHANGED <<g, c>>
       ELSE /\ g' = markOnPath(g, c)
            /\ c' = g.cells[c].to
            /\ UNCHANGED <<pc, solved>>
    /\ UNCHANGED <<height, width, solve, stack, from, to, entrance, exit, err,
                   solveCalls, outcome>>

\* the generator: RectangleMaze up to the end of its outer loop
GenNext ==
    \/ CreateGrid
    \/ ShuffleCells
    \/ SeedTree
    \/ PopFrom
    \/ RandomWalk
    \/ RetraceStep

\* gate placement, the two searches and the calls of Solve
SolverNext ==
    \/ PlaceGates
    \/ InlineSearchInit
    \/ InlineSearchStep
    \/ InlineMarkStep
    \/ Return
    \/ SolveCall
    \/ SolveSearchStep
    \/ SolveMarkStep

Next == GenNext \/ SolverNext

Spec == Init /\ [][Next]_vars

\* ------------------------------------------------- the open-passage graph
\* the in-bounds neighbors of cell p, from its four directional references
Links(gr, p) ==
    {gr.cells[p].neighbors.north, gr.cells[p].neighbors.east,
     gr.cells[p].neighbors.south, gr.cells[p].neighbors.west} \ {Nil}

\* the wall flag of cell p on the side facing its neighbor q
WallFacing(gr, p, q) ==
    IF gr.cells[p].neighbors.north = q THEN gr.cells[p].walls.north
    ELSE IF gr.cells[p].neighbors.east = q THEN gr.cells[p].walls.east
    ELSE IF gr.cells[p].neighbors.south = q THEN gr.cells[p].walls.south
    ELSE gr.cells[p].walls.west

\* the grid-adjacent pairs of cells, and those with no wall between them
AdjacentPairs(gr) == UNION {{{p, q} : q \in Links(gr, p)} : p \in DOMAIN gr.cells}
OpenBetween(gr, p, q) == ~WallFacing(gr, p, q) /\ ~WallFacing(gr, q, p)
OpenPairs(gr) ==
    {e \in AdjacentPairs(gr) : \E p \in e, q \in e : p # q /\ OpenBetween(gr, p, q)}

\* the cells reachable from the cells of R along the edges E
RECURSIVE Reach(_, _)
Reach(R, E) ==
    LET more == {q \in UNION E : \E e \in E : q \in e /\ e \cap R # {}} \ R
    IN  IF more = {} THEN R ELSE Reach(R \cup more, E)

Connected(V, E) == V = {} \/ Reach({CHOOSE v \in V : TRUE}, E) = V

\* a tree spanning V: connected, |V| - 1 edges, and every edge is a bridge
IsSpanningTree(V, E) ==
    /\ V # {}
    /\ Cardinality(E) = Cardinality(V) - 1
    /\ Connected(V, E)
    /\ \A e \in E : ~Connected(V, E \ {e})
\* ------------------------------------------ the solver on generated grids
\* The spanning trees of the h x w grid graph: the wall configurations the
\* generator's outer loop can end with (C1_SpanningTree and GateState, checked
\* under Spec; Wilson's algorithm reaches every spanning tree).
SpanningTrees(h, w) ==
    LET V == CellRefs(h, w)
        E == AdjacentPairs(createGrid(h, w))
    IN  {T \in SUBSET E : Cardinality(T) = Cardinality(V) - 1 /\ Connected(V, T)}

\* the grid at the end of the outer loop when the passages opened are T
GeneratedGrid(h, w, T) ==
    [height |-> h, width |-> w,
     cells |-> [p \in CellRefs(h, w) |->
        [NewCell(h, w, p) EXCEPT
            !.in = TRUE,
            !.walls = [north |-> {p, LinkNorth(h, w, p)} \notin T,
                       east |-> {p, LinkEast(h, w, p)} \notin T,
                       south |-> {p, LinkSouth(h, w, p)} \notin T,
                       west |-> {p, LinkWest(h, w, p)} \notin T]]]]

\* the cells with two or more passages in T, and the row-major first of them
InnerCells(T) == {y \in UNION T : Cardinality({e \in T : y \in e}) >= 2}
FirstInner(T) ==
    CHOOSE y \in InnerCells(T) :
        \A z \in InnerCells(T) : y[1] < z[1] \/ (y[1] = z[1] /\ y[2] <= z[2])

\* The state at maze.go:82 after a run whose last queued cell y had already
\* been absorbed by an earlier retrace: the walk pointers were cleared and no
\* walk followed, so from = to = y, a cell inside a retraced path (here the
\* row-major first such cell).
SolverInit ==
    /\ \E d \in SolverDims : \E T \in SpanningTrees(d[1], d[2]) :
            /\ height = d[1]
            /\ width = d[2]
            /\ g = GeneratedGrid(d[1], d[2], T)
            /\ from = FirstInner(T)
            /\ to = FirstInner(T)
    /\ solve \in BOOLEAN
    /\ stack = <<>>
    /\ entrance = Nil
    /\ exit = Nil
    /\ solved = FALSE
    /\ c = Nil
    /\ err = "unset"
    /\ solveCalls = 0
    /\ pc = "gate"
    /\ outcome = "running"

SolverSpec == SolverInit /\ [][SolverNext]_vars

\* Under Spec: the states the outer loop ends in are those SolverInit draws
\* from (all cells in, the passages a spanning tree, no other field touched).
GateState ==
    (pc = "gate" /\ height * width >= 1) =>
        /\ OpenPairs(g) \in SpanningTrees(height, width)
        /\ \A p \in DOMAIN g.cells :
             [g.cells[p] EXCEPT !.to = Nil] =
                GeneratedGrid(height, width, OpenPairs(g)).cells[p]
        /\ stack = <<>>
        /\ (\A p \in DOMAIN g.cells : g.cells[p].to = Nil) =>
              (height * width >= 3 =>
                 from = to /\ Cardinality({e \in OpenPairs(g) : from \in e}) >= 2)

\* the outer loop of the generator has ended and the grid is untouched by a panic
Generated ==
    pc \in {"gate", "rm_search_init", "rm_search", "rm_mark", "return", "idle",
            "search", "mark"}

\* RectangleMaze has returned the grid to its caller
Returned == outcome = "returned"

\* C1: in every grid the generator produces, the open-passage graph over all
\* height x width cells is a spanning tree: exactly height*width - 1 wall-pairs
\* are open, and the graph is connected and acyclic (every passage is a bridge).
C1_SpanningTree ==
    Generated =>
        /\ DOMAIN g.cells = CellRefs(height, width)
        /\ Cardinality(OpenPairs(g)) = height * width - 1
        /\ IsSpanningTree(DOMAIN g.cells, OpenPairs(g))

\* a generated grid of at least two rows and two columns, where the grid graph
\* has cycles the generator had to avoid
C1_Witness ==
    /\ Generated
    /\ height >= 2 /\ width >= 2
    /\ Cardinality(OpenPairs(g)) = height * width - 1

\* C2: after every retrace step and in the finished grid, for every cell A and
\* every in-bounds neighbor B, A's wall flag facing B equals B's facing A.
C2_WallSymmetry ==
    \A p \in DOMAIN g.cells : \A q \in Links(g, p) :
        WallFacing(g, p, q) = WallFacing(g, q, p)

\* a retrace step has opened a wall pair and the retrace is still under way
C2_Witness ==
    /\ pc = "retrace"
    /\ OpenPairs(g) # {}
    /\ ~g.cells[from].in
\* ---------------------------------------------------------------- solver
\* the cells flagged on-path
OnPathCells == {p \in DOMAIN g.cells : g.cells[p].onPath}

\* the cells met walking the to pointers from p, at most n steps
RECURSIVE Chain(_, _)
Chain(p, n) ==
    IF p = Nil \/ n = 0 THEN <<>> ELSE <<p>> \o Chain(g.cells[p].to, n - 1)

\* the cells whose removal cuts a from b in the open-passage graph, with a and b
CutCells(a, b) ==
    {a, b} \cup
    {p \in DOMAIN g.cells \ {a, b} :
        b \notin Reach({a}, {e \in OpenPairs(g) : p \notin e})}

\* a search and its marking loop have run to their end
SolveDone == (solve /\ pc \in {"return", "idle"}) \/ (solved /\ pc = "idle")

\* C3: after solving a generated grid, the cells flagged on-path are exactly the
\* cells of one simple path from the entrance to the exit, endpoints included,
\* consecutive cells grid-adjacent and joined by an open passage; every on-path
\* cell is flagged visited, and the backward walk along the predecessor pointers
\* from the exit ends at the entrance.
C3_OnPathIsThePath ==
    SolveDone =>
        LET path == Chain(exit, height * width + 1)
            n == Len(path)
        IN  /\ n >= 1 /\ n <= height * width
            /\ path[1] = exit
            /\ path[n] = entrance
            /\ g.cells[entrance].to = Nil
            /\ \A i \in 1..n : \A j \in 1..n : i # j => path[i] # path[j]
            /\ \A i \in 1..(n - 1) :
                 /\ path[i + 1] \in Links(g, path[i])
                 /\ OpenBetween(g, path[i], path[i + 1])
            /\ OnPathCells = {path[i] : i \in 1..n}
            /\ OnPathCells = CutCells(entrance, exit)
            /\ \A p \in OnPathCells : g.cells[p].visited

\* a solved grid of two rows whose path leaves some cell off it
C3_Witness ==
    /\ SolveDone
    /\ height >= 2
    /\ Cardinality(OnPathCells) >= 3
    /\ \E p \in DOMAIN g.cells : ~g.cells[p].onPath /\ g.cells[p].visited

\* the gates have been placed
GatesPlaced == entrance # Nil /\ exit # Nil

\* C4: in every generated grid the entrance is in row 0 with column in
\* [0, width/6) and its north wall open, and the exit is in row height-1 with
\* column in (width-1-width/6, width-1] and its south wall open.
C4_GatePlacement ==
    (Generated /\ pc # "gate") =>
        /\ GatesPlaced
        /\ entrance[1] = 0
        /\ 0 <= entrance[2] /\ entrance[2] < width \div GateDivisor
        /\ g.cells[entrance].entrance
        /\ ~g.cells[entrance].walls.north
        /\ exit[1] = height - 1
        /\ width - 1 - (width \div GateDivisor) < exit[2] /\ exit[2] <= width - 1
        /\ g.cells[exit].exit
        /\ ~g.cells[exit].walls.south

\* a returned grid whose gates are not in the corner columns
C4_Witness ==
    /\ Returned
    /\ entrance[2] = 1
    /\ exit[2] = width - 2

\* C7: for every generated grid the solver ends with the exit on top of its
\* stack: the stack is never empty when its top is inspected, a search never
\* panics, and the marking loop starts with the exit on top.
C7_SearchReachesExit ==
    /\ (pc \in {"rm_search", "search"} => Len(stack) > 0)
    /\ (pc \in {"rm_mark", "mark"} => Len(stack) > 0 /\ stack[Len(stack)] = exit)
    /\ ~(pc = "panic" /\ GatesPlaced)

\* C8: generating a maze of width 1..5 ends in a configuration error reported
\* to the caller: RectangleMaze returns a non-nil error and no maze, and no
\* entrance or exit is picked.
C8_NarrowWidthIsAnError ==
    (height >= 1 /\ width >= 1 /\ width < MinGateWidth /\ pc \in {"panic", "idle"}) =>
        /\ outcome = "returned"
        /\ err \notin {"unset", "nil"}
        /\ ~GatesPlaced

\* C9: generating a 1 x 1 grid does not crash: the run never panics and it
\* opens no internal wall.
C9_OneByOneDoesNotCrash ==
    (height = 1 /\ width = 1) => (outcome # "panic" /\ OpenPairs(g) = {})

\* C10: configuration errors (non-positive height or width, width too small for
\* a gate range) are surfaced before any generation work: when such a run
\* fails, no cell is a tree member and no wall has been opened.
C10_ErrorsBeforeWork ==
    ((height <= 0 \/ width <= 0 \/ width < MinGateWidth) /\ outcome # "running") =>
        \A p \in DOMAIN g.cells :
            /\ ~g.cells[p].in
            /\ g.cells[p].walls = [north |-> TRUE, east |-> TRUE,
                                   south |-> TRUE, west |-> TRUE]
\* ------------------------------------------------------------ termination
LiveInit == Call(LiveDims)

\* the walk steps to the cell n, a neighbor of the cell it stands on
WalkTo(n) == RandomWalk /\ pc' = "walk" /\ to' = n

LiveRefs == UNION {CellRefs(d[1], d[2]) : d \in LiveDims}

\* The generator runs on (it is one sequential loop), and the random choice of
\* neighbors is fair: a neighbor that can be chosen again and again is chosen.
LiveSpec ==
    /\ LiveInit
    /\ [][GenNext]_vars
    /\ WF_vars(GenNext)
    /\ \A n \in LiveRefs : SF_vars(WalkTo(n))

\* C6: under fair random choice of neighbors every loop-erased walk eventually
\* lands on a tree member, and the generator eventually exhausts its queue.
C6_GeneratorTerminates ==
    /\ (pc = "walk") ~> (pc = "retrace")
    /\ <>(pc = "gate" /\ stack = <<>>)

\* a walk that has come back to the cell it started from: a loop to erase
C6_Witness ==
    /\ pc = "walk"
    /\ to = from
    /\ g.cells[from].to # Nil
    /\ ~g.cells[from].in

\* ------------------------------------------------------------ grid creation
\* C11: createGrid(height, width) does not hand back a grid when height <= 0
\* or width <= 0, so RectangleMaze never gets past its first statement.
C11_NonPositiveDimsFail ==
    (height <= 0 \/ width <= 0) => pc \in {"start", "panic"} /\ g.cells = <<>> /\ stack = <<>>

\* --------------------------------------------------- the 5 x 5 scenario
ScenarioDims == {<<5, 5>>}

\* Spanning trees of the h x w grid made of every vertical passage and, between
\* each pair of adjacent columns j and j+1, the one horizontal passage in row f[j].
CombTrees(h, w) ==
    LET vertical == {{<<r, k>>, <<r + 1, k>>} : r \in 0..(h - 2), k \in 0..(w - 1)}
    IN  {vertical \cup {{<<f[j], j>>, <<f[j], j + 1>>} : j \in 0..(w - 2)} :
            f \in [0..(w - 2) -> 0..(h - 1)]}

\* The state at maze.go:82 of runs on the scenario's grid that carved a comb
\* tree and whose last queued cell had already been absorbed (see SolverInit).
ScenarioInit ==
    /\ \E d \in ScenarioDims : \E T \in CombTrees(d[1], d[2]) :
            /\ height = d[1]
            /\ width = d[2]
            /\ g = GeneratedGrid(d[1], d[2], T)
            /\ from = FirstInner(T)
            /\ to = FirstInner(T)
    /\ solve \in BOOLEAN
    /\ stack = <<>>
    /\ entrance = Nil
    /\ exit = Nil
    /\ solved = FALSE
    /\ c = Nil
    /\ err = "unset"
    /\ solveCalls = 0
    /\ pc = "gate"
    /\ outcome = "running"

\* what is left of RectangleMaze after the outer loop on this grid
ScenarioSpec == ScenarioInit /\ [][PlaceGates]_vars

\* C12: generating with height = 5 and width = 5 runs to completion, whatever
\* the random choices, and the grid produced has exactly 24 open wall-pairs.
C12_FiveByFiveCompletes ==
    (height = 5 /\ width = 5) =>
        /\ outcome # "panic"
        /\ (pc # "start" /\ Generated) => Cardinality(OpenPairs(g)) = 24

\* ------------------------------------------------------ the exit pointers
\* every cell's exit pointer is empty
AllPointersNil(gr) == \A p \in DOMAIN gr.cells : gr.cells[p].to = Nil

\* C13: the exit-pointer reset runs before each new loop-erased walk and once
\* before a search begins: in the state a walk starts from and in the state
\* where the solver has pushed the entrance, every cell's exit pointer is empty.
C13_ResetBeforeEachPhase ==
    [][((pc = "pop" /\ pc' = "walk")
        \/ (pc = "rm_search_init" /\ pc' = "rm_search")
        \/ (pc = "idle" /\ pc' = "search")) => AllPointersNil(g)']_vars

\* a walk about to start from a non-member cell after an earlier walk has
\* recorded pointers and carved passages
C13_Witness ==
    /\ pc = "walk"
    /\ to = from
    /\ ~g.cells[from].in
    /\ AllPointersNil(g)
    /\ OpenPairs(g) # {}

\* C14: the first step of solving clears every exit pointer and resets every
\* visited and on-path flag, whatever an earlier generation or solve left in
\* them, before the entrance is pushed and marked visited.
C14_SolveResetsFlags ==
    (pc \in {"rm_search", "search"} /\ stack = <<entrance>>) =>
        \A p \in DOMAIN g.cells :
            /\ g.cells[p].to = Nil
            /\ ~g.cells[p].onPath
            /\ g.cells[p].visited <=> p = entrance

\* ------------------------------------------------- the grid createGrid makes
\* cells p and q share an edge of the grid
GridAdjacent(p, q) ==
    \/ p[1] = q[1] /\ (p[2] = q[2] + 1 \/ q[2] = p[2] + 1)
    \/ p[2] = q[2] /\ (p[1] = q[1] + 1 \/ q[1] = p[1] + 1)

\* the reference to cell q when q is a cell of the grid, nil otherwise
RefOrNil(q) == IF q \in DOMAIN g.cells THEN q ELSE Nil

\* every cell is linked to its grid-adjacent cells, and its neighborhood holds
\* exactly its in-bounds neighbors, each once, no nil entry, agreeing with its
\* four directional references
CellsLinked ==
    \A p \in DOMAIN g.cells :
        LET cl == g.cells[p]
            adj == {q \in DOMAIN g.cells : GridAdjacent(p, q)}
        IN  /\ cl.row = p[1] /\ cl.col = p[2]
            /\ cl.neighbors.north = RefOrNil(<<p[1] - 1, p[2]>>)
            /\ cl.neighbors.east = RefOrNil(<<p[1], p[2] + 1>>)
            /\ cl.neighbors.south = RefOrNil(<<p[1] + 1, p[2]>>)
            /\ cl.neighbors.west = RefOrNil(<<p[1], p[2] - 1>>)
            /\ {cl.neighborhood[i] : i \in 1..Len(cl.neighborhood)} = adj
            /\ Len(cl.neighborhood) = Cardinality(adj)
            /\ Links(g, p) = adj

\* every cell is fully walled
CellsWalled ==
    \A p \in DOMAIN g.cells :
        g.cells[p].walls = [north |-> TRUE, east |-> TRUE, south |-> TRUE, west |-> TRUE]

\* createGrid has just returned
GridCreated == pc = "shuffle"

\* C15 as stated: after createGrid every cell is fully walled and linked, and
\* each neighborhood has between 2 and 4 entries.
C15_NeighborhoodTwoToFour ==
    GridCreated =>
        /\ DOMAIN g.cells = CellRefs(height, width)
        /\ CellsWalled
        /\ CellsLinked
        /\ \A p \in DOMAIN g.cells :
             Len(g.cells[p].neighborhood) >= 2 /\ Len(g.cells[p].neighborhood) <= 4

\* C15 as amended: after createGrid every cell is fully walled and linked as
\* above; a neighborhood has at most 4 entries, and at least 2 when the grid
\* has two or more rows and two or more columns (a grid of one row or one
\* column has cells with one neighbor, the 1 x 1 grid a cell with none). The
\* links stay as created from then on.
C15_GridCreated ==
    /\ GridCreated => DOMAIN g.cells = CellRefs(height, width) /\ CellsWalled
    /\ CellsLinked
    /\ \A p \in DOMAIN g.cells :
         /\ Len(g.cells[p].neighborhood) <= 4
         /\ (height >= 2 /\ width >= 2) => Len(g.cells[p].neighborhood) >= 2

\* a fresh grid with a cell of three neighbors
C15_Witness ==
    /\ GridCreated
    /\ \E p \in DOMAIN g.cells : Len(g.cells[p].neighborhood) = 3

\* ------------------------------------------------------ the solver's frame
\* the fields of a cell that the generator owns
CellFrame(cl) ==
    [row |-> cl.row, col |-> cl.col, walls |-> cl.walls, in |-> cl.in,
     entrance |-> cl.entrance, exit |-> cl.exit, neighbors |-> cl.neighbors,
     neighborhood |-> cl.neighborhood]

\* the grid without the fields the solver writes (visited, onPath, to)
Frame(gr) ==
    [height |-> gr.height, width |-> gr.width,
     cells |-> [p \in DOMAIN gr.cells |-> CellFrame(gr.cells[p])]]

\* the solver is at work: the search inside RectangleMaze, or a call of Solve
SolverPcs == {"rm_search_init", "rm_search", "rm_mark", "idle", "search", "mark"}

\* C16: no step of the solver changes a wall flag, a member flag, an entrance
\* or exit flag or a neighbor link of any cell; it writes only visited, onPath
\* and the to pointer, so the walls after solving are the generator's.
C16_SolverFrame ==
    [][(pc \in SolverPcs) =>
         (Frame(g') = Frame(g) /\ OpenPairs(g') = OpenPairs(g))]_vars

\* Solve has finished a search that visited a cell off the path
C16_Witness ==
    /\ pc = "idle"
    /\ solved
    /\ \E p \in DOMAIN g.cells : g.cells[p].visited /\ ~g.cells[p].onPath

\* ------------------------------------------------------ the two gate flags
EntranceCells == {p \in DOMAIN g.cells : g.cells[p].entrance}
ExitCells == {p \in DOMAIN g.cells : g.cells[p].exit}

\* C17: at most one cell carries the entrance flag, at most one cell carries
\* the exit flag, and once the gates are placed the entrance cell and the exit
\* cell are two different cells, each the only cell carrying its flag.
C17_OneEntranceOneExit ==
    /\ Cardinality(EntranceCells) <= 1
    /\ Cardinality(ExitCells) <= 1
    /\ EntranceCells \cap ExitCells = {}
    /\ GatesPlaced =>
         /\ EntranceCells = {entrance}
         /\ ExitCells = {exit}
         /\ entrance # exit

\* the gates of a grid of one row: entrance and exit lie in the same row
C17_Witness ==
    /\ GatesPlaced
    /\ height = 1
    /\ EntranceCells # {}
    /\ ExitCells # {}

\* ----------------------------------------------------------- loop erasure
\* the cells met following the to pointers from p, at most n of them, up to and
\* including the first cell that is in the maze or is the walk's position
RECURSIVE Trail(_, _)
Trail(p, n) ==
    IF p = Nil \/ n = 0 THEN <<>>
    ELSE IF p = to \/ g.cells[p].in THEN <<p>>
    ELSE <<p>> \o Trail(g.cells[p].to, n - 1)

\* the surviving pointers from `from` lead through pairwise distinct cells that
\* are not in the maze, each step to a grid-adjacent cell, and end after
\* finitely many steps: during the walk at its position, after it at a cell
\* that is in the maze
TrailErased ==
    pc \in {"walk", "retrace"} =>
        LET t == Trail(from, height * width + 1)
            n == Len(t)
        IN  /\ n >= 1 /\ n <= height * width
            /\ pc = "walk" => t[n] = to
            /\ pc = "retrace" => g.cells[t[n]].in
            /\ \A i \in 1..(n - 1) : ~g.cells[t[i]].in
            /\ \A i, j \in 1..n : i # j => t[i] # t[j]
            /\ \A i \in 1..(n - 1) : GridAdjacent(t[i], t[i + 1])

\* a step of the walk overwrites the exit of the cell it leaves, and of no other
LatestExitKept ==
    (pc = "walk" /\ pc' = "walk") =>
        /\ g'.cells[to].to = to'
        /\ \A p \in DOMAIN g.cells \ {to} : g'.cells[p] = g.cells[p]

\* C18: loop erasure. When a walk from a cell that is not in the maze ends on
\* a cell that is, the surviving to pointers from `from` visit pairwise distinct
\* cells not in the maze, each pointer leading to a grid-adjacent cell, and
\* reach a cell in the maze after finitely many steps; a revisited cell keeps
\* only its most recent exit.
C18_LoopErasure == []TrailErased /\ [][LatestExitKept]_vars

\* a walk has ended, its trail has three cells, and a cell off the trail still
\* holds the exit of a loop that was erased
C18_Witness ==
    /\ pc = "retrace"
    /\ ~g.cells[from].in
    /\ LET t == Trail(from, height * width + 1)
       IN  /\ Len(t) >= 3
           /\ \E p \in DOMAIN g.cells :
                /\ g.cells[p].to # Nil
                /\ ~g.cells[p].in
                /\ \A i \in 1..Len(t) : t[i] # p

\* ------------------------------------------------------- one retrace step
\* the wall flags of a grid, cell by cell
Walls(gr) == [p \in DOMAIN gr.cells |-> gr.cells[p].walls]

\* the cells in the maze
InCells(gr) == {p \in DOMAIN gr.cells : gr.cells[p].in}

\* the wall of cell p that faces cell q is the only wall of p that differs
\* between grids a and b, and it is open in b
OnlyFacingOpened(a, b, p, q) ==
    /\ ~WallFacing(b, p, q)
    /\ \A d \in {"north", "east", "south", "west"} :
         a.cells[p].neighbors[d] # q => b.cells[p].walls[d] = a.cells[p].walls[d]

\* C19: a retrace step at a cell not in the maze opens exactly the wall pair
\* between that cell and the cell its to pointer references (the facing flag
\* on both sides, no other flag of any cell), marks the cell as in the maze
\* and advances to the referenced cell; at the first cell that is in the maze
\* the retrace stops and changes nothing.
C19_RetraceStep ==
    [][(pc = "retrace") =>
         IF g.cells[from].in
         THEN pc' = "pop" /\ g' = g /\ from' = from
         ELSE LET t == g.cells[from].to
              IN  /\ pc' = "retrace"
                  /\ from' = t
                  /\ GridAdjacent(from, t)
                  /\ OnlyFacingOpened(g, g', from, t)
                  /\ OnlyFacingOpened(g, g', t, from)
                  /\ \A p \in DOMAIN g.cells \ {from, t} :
                       g'.cells[p].walls = g.cells[p].walls
                  /\ OpenPairs(g') = OpenPairs(g) \cup {{from, t}}
                  /\ InCells(g') = InCells(g) \cup {from}
                  /\ g.cells = [p \in DOMAIN g.cells |->
                                  [g'.cells[p] EXCEPT !.walls = g.cells[p].walls,
                                                      !.in = g.cells[p].in]]
                  /\ g'.height = g.height /\ g'.width = g.width]_vars

\* the retrace has opened two passages of a walk and stands on its last cell
C19_Witness ==
    /\ pc = "retrace"
    /\ g.cells[from].in
    /\ g.cells[from].to = Nil
    /\ \E p, q \in DOMAIN g.cells :
         /\ p # q
         /\ g.cells[p].to = q
         /\ g.cells[q].to = from
         /\ {{p, q}, {q, from}} \subseteq OpenPairs(g)

\* ------------------------------------- popping a cell that is in the maze
\* C20: when the cell popped off the front of the queue is already in the
\* maze, the iteration does nothing to the maze: the pop itself changes no
\* wall flag and no in flag, the walk takes no step (its first test ends it
\* with the grid and the position unchanged), and the retrace ends at once
\* with the grid unchanged.
C20_MemberPopIsNoop ==
    [][/\ (pc = "pop") =>
            (Walls(g') = Walls(g) /\ InCells(g') = InCells(g))
       /\ (pc = "walk" /\ to = from /\ g.cells[from].in) =>
            (pc' = "retrace" /\ g' = g /\ to' = to /\ from' = from)
       /\ (pc = "retrace" /\ to = from /\ g.cells[from].in) =>
            (pc' = "pop" /\ g' = g)]_vars

\* a cell that an earlier retrace put in the maze was popped, and the walk
\* ended without a step: no cell has an exit recorded
C20_Witness ==
    /\ pc = "retrace"
    /\ to = from
    /\ g.cells[from].in
    /\ AllPointersNil(g)
    /\ \E q \in DOMAIN g.cells : {from, q} \in OpenPairs(g)

\* ------------------------------------------- the solver on taller grids
\* grids of three and four rows, wide enough for the gates
TallDims == {<<3, 6>>, <<4, 6>>}

\* The state at maze.go:82 of runs on a tall grid that carved a comb tree and
\* whose last queued cell had already been absorbed (see SolverInit).
TallInit ==
    /\ \E d \in TallDims : \E T \in CombTrees(d[1], d[2]) :
            /\ height = d[1]
            /\ width = d[2]
            /\ g = GeneratedGrid(d[1], d[2], T)
            /\ from = FirstInner(T)
            /\ to = FirstInner(T)
    /\ solve \in BOOLEAN
    /\ stack = <<>>
    /\ entrance = Nil
    /\ exit = Nil
    /\ solved = FALSE
    /\ c = Nil
    /\ err = "unset"
    /\ solveCalls = 0
    /\ pc = "gate"
    /\ outcome = "running"

TallSpec == TallInit /\ [][SolverNext]_vars

\* ------------------------------------------------------ the solver's loop
\* a search loop is about to pop the cell on top of its stack
Popping == pc \in {"search", "rm_search"} /\ Len(stack) > 0 /\ ~g.cells[stack[Len(stack)]].exit

\* the cell a search pops next, and the stack without it
Top == stack[Len(stack)]
Rest == SubSeq(stack, 1, Len(stack) - 1)

\* the cell below p in the grid
Below(p) == <<p[1] + 1, p[2]>>

\* the exit lies one step south of the popped cell, through an open passage
ExitJustSouth ==
    /\ Below(Top) \in DOMAIN g.cells
    /\ ~g.cells[Top].walls.south
    /\ g.cells[Below(Top)].exit

\* C21: when the popped cell has an open south passage whose neighbor is the
\* exit, the exit is marked visited, its predecessor is set to the popped
\* cell and it is pushed; no other cell is marked or pushed, and the search
\* loop ends with the exit on top of the stack.
C21_Shortcut ==
    [][(Popping /\ ExitJustSouth) =>
         /\ stack' = Append(Rest, Below(Top))
         /\ stack'[Len(stack')] = exit
         /\ g'.cells[Below(Top)] =
               [g.cells[Below(Top)] EXCEPT !.visited = TRUE, !.to = Top]
         /\ \A p \in DOMAIN g.cells \ {Below(Top)} : g'.cells[p] = g.cells[p]
         /\ pc' = (IF pc = "search" THEN "mark" ELSE "rm_mark")
         /\ c' = exit]_vars

\* the search ended through the shortcut while the cell above the exit still
\* had an open passage to an unvisited neighbor
C21_Witness ==
    /\ pc \in {"mark", "rm_mark"}
    /\ c = exit
    /\ exit # Nil
    /\ Len(stack) > 0
    /\ Top = exit
    /\ LET cur == g.cells[exit].to
       IN  /\ cur # Nil
           /\ Below(cur) = exit
           /\ \E q \in DOMAIN g.cells :
                /\ {cur, q} \in OpenPairs(g)
                /\ ~g.cells[q].visited

\* the four sides of cell p in the order north, east, south, west, each with
\* the position beyond it
Sides(p) ==
    << [d |-> "north", q |-> <<p[1] - 1, p[2]>>],
       [d |-> "east", q |-> <<p[1], p[2] + 1>>],
       [d |-> "south", q |-> <<p[1] + 1, p[2]>>],
       [d |-> "west", q |-> <<p[1], p[2] - 1>>] >>

\* the neighbors the expansion of cell p pushes, in order: those in bounds,
\* behind no wall of p, and not yet visited
Pushed(p) ==
    LET Passable(e) ==
            /\ e.q \in DOMAIN g.cells
            /\ ~g.cells[p].walls[e.d]
            /\ ~g.cells[e.q].visited
        sel == SelectSeq(Sides(p), Passable)
    IN  [i \in 1..Len(sel) |-> sel[i].q]

\* C22: when the shortcut does not apply, the popped cell's sides are examined
\* north, east, south, west; each in-bounds unvisited neighbor behind an open
\* passage is marked visited, gets the popped cell as predecessor and is
\* pushed, in that order, so the last of them is popped next; a side with a
\* wall, a visited neighbor or nothing beyond it (the opened boundary side of
\* the entrance or exit) pushes nothing, and no other cell changes.
C22_Expansion ==
    [][(Popping /\ ~ExitJustSouth) =>
         LET new == Pushed(Top)
             cells == {new[i] : i \in 1..Len(new)}
         IN  /\ stack' = Rest \o new
             /\ Len(new) > 0 => stack'[Len(stack')] = new[Len(new)]
             /\ \A q \in cells :
                  g'.cells[q] = [g.cells[q] EXCEPT !.visited = TRUE, !.to = Top]
             /\ \A p \in DOMAIN g.cells \ cells : g'.cells[p] = g.cells[p]
             /\ pc' = pc]_vars

\* an expansion has just pushed two neighbors of one cell, itself reached from
\* a third cell
C22_Witness ==
    /\ pc \in {"search", "rm_search"}
    /\ Len(stack) >= 2
    /\ LET a == stack[Len(stack) - 1]
           b == stack[Len(stack)]
       IN  /\ g.cells[a].to # Nil
           /\ g.cells[a].to = g.cells[b].to
           /\ g.cells[g.cells[a].to].to # Nil

\* ------------------------------------------------- the search never revisits
\* a search or its marking loop is under way
Searching == pc \in {"search", "rm_search", "mark", "rm_mark"}

\* the cells on the stack
StackCells == {stack[i] : i \in 1..Len(stack)}

\* the cells this search has pushed: the entrance, and every cell that has a
\* predecessor (the pointers were cleared when the search began)
PushedCells == {entrance} \cup {p \in DOMAIN g.cells : g.cells[p].to # Nil}

\* the cells this search has popped: one for every iteration it has run
PoppedCells == PushedCells \ StackCells

\* no cell is on the stack twice, the stack holds only cells this search
\* pushed, each marked visited, the entrance has no predecessor, and the
\* number of iterations run is at most the number of cells
NoRevisitState ==
    Searching =>
        /\ \A i, j \in 1..Len(stack) : i # j => stack[i] # stack[j]
        /\ StackCells \subseteq PushedCells
        /\ \A p \in PushedCells : g.cells[p].visited
        /\ g.cells[entrance].to = Nil
        /\ Cardinality(PoppedCells) <= height * width

\* an iteration pops a cell that was never popped before and that stays off
\* the stack, pushes only cells never pushed before, and sets no predecessor
\* that was already set
NoRevisitStep ==
    Popping =>
        /\ Top \notin PoppedCells
        /\ PoppedCells' = PoppedCells \cup {Top}
        /\ Cardinality(PoppedCells') = Cardinality(PoppedCells) + 1
        /\ Len(stack') >= Len(Rest)
        /\ SubSeq(stack', 1, Len(Rest)) = Rest
        /\ \A i \in (Len(Rest) + 1)..Len(stack') : stack'[i] \notin PushedCells
        /\ \A p \in DOMAIN g.cells : g.cells[p].to # Nil => g'.cells[p].to = g.cells[p].to

\* C23: the search never revisits a cell. Each cell is pushed at most once and
\* popped at most once, each cell's predecessor is set at most once, the
\* entrance's predecessor stays empty, and the search loop runs at most
\* height x width iterations.
C23_NoRevisit == []NoRevisitState /\ [][NoRevisitStep]_vars

\* a search has ended after five or more iterations, leaving below the exit a
\* cell it pushed and never popped
C23_Witness ==
    /\ pc \in {"mark", "rm_mark"}
    /\ Cardinality(PoppedCells) >= 5
    /\ Len(stack) >= 2
    /\ Top = exit

\* ------------------------------------------ the outer loop of the generator
\* the outer loop is at its test: before an iteration, or at its end
AtLoopHead == pc \in {"pop", "gate"}

Directions == {"north", "east", "south", "west"}

\* the cells in the maze and the open passages form a tree; an open wall of a
\* cell in the maze leads to a cell in the maze; a cell not in the maze has
\* its four walls
TreeSoFar ==
    AtLoopHead =>
        /\ IsSpanningTree(InCells(g), OpenPairs(g))
        /\ Cardinality(OpenPairs(g)) = Cardinality(InCells(g)) - 1
        /\ \A e \in OpenPairs(g) : e \subseteq InCells(g)
        /\ \A p \in InCells(g) : \A d \in Directions :
             ~g.cells[p].walls[d] =>
                /\ g.cells[p].neighbors[d] \in InCells(g)
                /\ {p, g.cells[p].neighbors[d]} \in OpenPairs(g)
        /\ \A p \in DOMAIN g.cells \ InCells(g) : \A d \in Directions :
             g.cells[p].walls[d]

\* no step clears an in flag or closes an open wall
NeverUndone ==
    /\ InCells(g) \subseteq InCells(g')
    /\ DOMAIN g.cells # {} =>
         \A p \in DOMAIN g.cells : \A d \in Directions :
            ~g.cells[p].walls[d] => ~g'.cells[p].walls[d]

\* C24: at the start of every iteration of the generator's outer loop and
\* when it ends, the cells in the maze with the open passages between them
\* form a tree (connected, acyclic, open wall-pairs = cells in the maze - 1)
\* and every cell not in the maze has all four walls; no in flag is ever
\* cleared and no opened wall is ever closed.
C24_LoopInvariant == []TreeSoFar /\ [][NeverUndone]_vars

\* the outer loop starts an iteration with a tree of three or more cells and
\* a cell still outside it
C24_Witness ==
    /\ pc = "pop"
    /\ Len(stack) > 0
    /\ Cardinality(InCells(g)) >= 3
    /\ InCells(g) # DOMAIN g.cells

\* ------------------------------------------------ Solve on a solved maze
\* the maze in the caller's hands has been solved: by RectangleMaze itself
\* (solve = true) or by an earlier call of Solve
AlreadySolved == solve \/ solved

\* C25: calling Solve on a maze that is already solved, whether by an earlier
\* call of Solve or by RectangleMaze(height, width, true), returns normally
\* and leaves every cell's visited flag, onPath flag and to pointer unchanged.
C25_SolveIdempotent ==
    [][(pc = "idle" /\ AlreadySolved) =>
         (pc' = "idle" /\ outcome' = outcome /\ g' = g)]_vars

\* ------------------------------------------------------ the outer boundary
\* side e of cell p faces outside the grid
FacesOutside(e) == e.q \notin DOMAIN g.cells

\* C26: the outer boundary is closed except at the two gates. Every wall flag
\* that faces outside the grid is set, except the north wall of the entrance
\* and the south wall of the exit, which are open once the gates are placed;
\* before that, the retrace included, every boundary-facing flag is set.
C26_BoundaryClosed ==
    /\ \A p \in DOMAIN g.cells : \A i \in 1..4 :
         LET e == Sides(p)[i]
         IN  FacesOutside(e) =>
                \/ g.cells[p].walls[e.d]
                \/ e.d = "north" /\ p = entrance /\ g.cells[p].entrance
                \/ e.d = "south" /\ p = exit /\ g.cells[p].exit
    /\ GatesPlaced =>
         /\ entrance[1] = 0 /\ ~g.cells[entrance].walls.north
         /\ exit[1] = height - 1 /\ ~g.cells[exit].walls.south

\* a maze with its two gates open has been returned
C26_Witness ==
    /\ Returned
    /\ GatesPlaced
    /\ ~g.cells[entrance].walls.north
    /\ ~g.cells[exit].walls.south
    /\ Cardinality(OpenPairs(g)) >= 5
====
